---- MODULE Spec2Model ----
(***************************************************************************)
(* Two JSON-RPC Connections (an agent side and a client side) joined by    *)
(* two line-framed streams.  The repository holds two implementations of   *)
(* Connection: src/acp/core.py ("core") and agent_client_protocol/acp.py   *)
(* ("acp").  The variable impl says which one both ends run.               *)
(*                                                                         *)
(* asyncio is cooperative: the code between two awaits is one atomic step. *)
(* Each action below is one such step of one task.                         *)
(***************************************************************************)
EXTENDS Integers, Sequences, FiniteSets, TLC

\* ------------------------------------------------------------------ bounds
\* Each bounds a total over both Connections.
MaxCalls == 2      \* send_request calls issued
MaxNotifs == 2     \* send_notification calls issued
MaxFaults == 1     \* foreign frames put on a stream, streams closed
MaxClose == 2      \* close() calls made
MaxSuspend == 1    \* drains that suspend their task
MaxOps == 3        \* operations started from outside: sends, closes, faults
MaxCancel == 1     \* send_request calls abandoned by their caller
MaxInbound == 2    \* Requests that arrive at one adapter

\* ------------------------------------------------------------- vocabulary
Conns == {"agent", "client"}
Peer(c) == IF c = "agent" THEN "client" ELSE "agent"
Impls == {"core", "acp"}

\* The payload of the n-th send of a Connection: a payload of its own, so
\* that a result can be traced to the call it answers.
ParamOf(n) == CASE n = 1 -> "p1" [] n = 2 -> "p2" [] n = 3 -> "p3" [] OTHER -> "p4"
KnownMethod == "fs/read_text_file"
UnknownMethod == "bogus"
Methods == {KnownMethod, UnknownMethod}

\* JSON-RPC error codes
ParseError == -32700
InvalidRequest == -32600
MethodNotFound == -32601
InvalidParams == -32602
InternalError == -32603
AuthRequired == -32000

\* --------------------------------------------------------------- frames
\* One line.  line says what json.loads makes of its bytes: "json" (a JSON
\* object, described by the other fields), "nondict" (a JSON value that is
\* no object), "badutf8" (bytes that are no UTF-8; with those bytes left
\* out the text is the JSON object described by the other fields),
\* "garbage" (no JSON either way).  A key that is absent from the JSON
\* object has its has* flag FALSE (method: the string "absent"); "null" is
\* JSON null.
Frame(hasId, id, method, params, hasResult, result, hasError, code) ==
    [line |-> "json", hasId |-> hasId, id |-> id, method |-> method,
     params |-> params, hasResult |-> hasResult, result |-> result,
     hasError |-> hasError, code |-> code]

NoFrame == Frame(FALSE, -1, "absent", "none", FALSE, "none", FALSE, 0)
\* A Request that carries the params of the first call, whatever its own.
RequestFrameFirstParams(id, m, p) ==
    Frame(TRUE, id, m, ParamOf(1), FALSE, "none", FALSE, 0)
RequestFrame(id, m, p) == Frame(TRUE, id, m, p, FALSE, "none", FALSE, 0)
\* A Notification that carries the params of the first one, whatever its own.
NotificationFrameFirstParams(m, p) ==
    Frame(FALSE, -1, m, ParamOf(1), FALSE, "none", FALSE, 0)
NotificationFrame(m, p) == Frame(FALSE, -1, m, p, FALSE, "none", FALSE, 0)
ResultFrame(id, r) == Frame(TRUE, id, "absent", "none", TRUE, r, FALSE, 0)
ErrorFrame(id, code) == Frame(TRUE, id, "absent", "none", FALSE, "none", TRUE, code)
EmptyResponseFrame(id) == Frame(TRUE, id, "absent", "none", FALSE, "none", FALSE, 0)
RawLine(kind, f) == [f EXCEPT !.line = kind]
Unparseable == {"badutf8", "garbage"}

\* ---------------------------------------------------------------- state
VARIABLES
    impl,        \* which Connection implementation both ends run
    nextId,      \* [Conns -> Nat]        _next_request_id
    calls,       \* [Conns -> Seq(call)]  every send_request made, in order
    pending,     \* [Conns -> [ids -> index into calls]]  _pending
    notifs,      \* [Conns -> Seq(...)]   every send_notification made
    chan,        \* [Conns -> Seq(frame)] lines on the wire towards c
    eof,         \* [Conns -> BOOLEAN]    c's inbound stream has ended
    wclosed,     \* [Conns -> BOOLEAN]    c's writer is closed
    lock,        \* [Conns -> holder]     _write_lock
    recv,        \* [Conns -> record]     the receive task
    closePc,     \* [Conns -> "idle" | "wait"]  a close() call in progress
    closeCalls,  \* [Conns -> Nat]        close() calls that have returned
    faults,      \* Nat                   foreign frames and closed streams so far
    suspends,    \* Nat                   drains that suspended so far
    reqLog,      \* [Conns -> Seq(...)]   inbound Requests and their Responses
    notifLog,    \* [Conns -> Seq(...)]   inbound Notifications handed to the handler
    probe        \* one Request taken through a role adapter and back

vars == <<impl, nextId, calls, pending, notifs, chan, eof, wclosed, lock,
          recv, closePc, closeCalls, faults, suspends, reqLog, notifLog, probe>>

\* -------------------------------------------------------- data helpers
Free == [kind |-> "free", k |-> 0]
RecvHolder == [kind |-> "recv", k |-> 0]
CallHolder(k) == [kind |-> "call", k |-> k]
NotifHolder(n) == [kind |-> "notif", k |-> n]

\* A send_request call: its id, its Future (st, val, code), the frame that
\* wrote the Future (by), the number of writes to it, and the position of
\* the task running it: "send" (in _send_obj, before the lock), "drain"
\* (holding the lock, awaiting drain), "await" (awaiting the Future),
\* "failed" (the send raised), "aborted" (the task was cancelled).  alone:
\* every earlier send_request of the Connection had returned to its caller
\* when this one was made.
NewCall(id, m, p, owner) ==
    [id |-> id, method |-> m, params |-> p, owner |-> owner, pos |-> "send",
     st |-> "pending", val |-> "none", code |-> 0, by |-> NoFrame, writes |-> 0,
     alone |-> FALSE]

FutureDone(call) == call.st # "pending"

\* The caller of the call is still suspended inside send_request.
Suspended(call) == call.pos \in {"send", "drain", "await"} /\ ~FutureDone(call)

\* send_request has returned or raised: `await fut` was reached with the
\* Future done, or the send failed, or the task was cancelled.
Returned(call) ==
    \/ call.pos = "await" /\ FutureDone(call)
    \/ call.pos \in {"failed", "aborted"}
AllReturned(cs) == \A j \in DOMAIN cs : Returned(cs[j])

\* send_notification has returned or raised.
NotifReturned(n) == n.pos \in {"done", "failed"}
AllNotifsReturned(ns) == \A j \in DOMAIN ns : NotifReturned(ns[j])

IdleRecv == [pc |-> "read", msg |-> NoFrame, out |-> NoFrame, nested |-> 0]
RecvStopped(r) == r.pc \in {"done", "cancelled", "crashed"}

\* dict.pop(id, None) / dict[id] = k on the pending table
\* The entry is not registered.
TableSkip(t, id, k) == t
TablePut(t, id, k) == [i \in (DOMAIN t) \cup {id} |-> IF i = id THEN k ELSE t[i]]
\* A pop that leaves the entry in the table.
TableKeep(t, id) == t

TableDel(t, id) == [i \in (DOMAIN t) \ {id} |-> t[i]]
EmptyTable == [i \in {} |-> 0]

\* ------------------------------------------------------ pure functions
\* What the implementation's operation returns for a payload.
Echo(p) == p

\* Every message with a method is taken for a Request.
ClassifyMethodOnly(im, msg) ==
    IF msg.method # "absent" THEN "request"
    ELSE IF msg.hasId THEN "response"
    ELSE "invalid"

\* Classification of a decoded object.  core reads message.get("method"),
\* so a null method counts as no method; acp tests key membership.
Classify(im, msg) ==
    LET hasMethod == IF im = "core" THEN msg.method \notin {"absent", "null"}
                     ELSE msg.method # "absent"
    IN  IF hasMethod /\ msg.hasId THEN "request"
        ELSE IF hasMethod THEN "notification"
        ELSE IF msg.hasId THEN "response"
        ELSE "invalid"

\* An id is taken and the counter is left where it was.
AllocIdNoIncrement(n) == [id |-> n, next |-> n]

\* The id a send_request takes and the counter it leaves behind.
AllocId(n) == [id |-> n, next |-> n + 1]

\* Responses matched to the oldest outstanding call, whatever their id.
ResolveOldest(t, msg) ==
    IF DOMAIN t = {} THEN 0
    ELSE t[CHOOSE i \in DOMAIN t : \A j \in DOMAIN t : i <= j]

\* Responses matched to the newest outstanding call, whatever their id.
ResolveNewest(t, msg) ==
    IF DOMAIN t = {} THEN 0
    ELSE t[CHOOSE i \in DOMAIN t : \A j \in DOMAIN t : j <= i]

\* A Response whose id is not in the table falls to the newest entry.
ResolveNearest(t, msg) ==
    IF msg.id \in DOMAIN t THEN t[msg.id]
    ELSE IF DOMAIN t = {} THEN 0
    ELSE t[CHOOSE i \in DOMAIN t : \A j \in DOMAIN t : j <= i]

\* The entry of the pending table a Response frame resolves: 0 for none.
ResolveTarget(t, msg) == IF msg.id \in DOMAIN t THEN t[msg.id] ELSE 0

\* The Response handling without its branch for the `error` key.
SetFromFrameNoError(im, call, msg) ==
    IF msg.hasResult
    THEN [call EXCEPT !.st = "result", !.val = msg.result, !.by = msg,
                      !.writes = @ + 1]
    ELSE call

\* Future.set_result / set_exception driven by a Response frame.
SetFromFrame(im, call, msg) ==
    IF msg.hasResult
    THEN [call EXCEPT !.st = "result", !.val = msg.result, !.by = msg,
                      !.writes = @ + 1]
    ELSE IF msg.hasError
    THEN [call EXCEPT !.st = "error", !.code = msg.code, !.by = msg,
                      !.writes = @ + 1]
    ELSE IF im = "core"
    THEN [call EXCEPT !.st = "result", !.val = "none", !.by = msg,
                      !.writes = @ + 1]
    ELSE call

\* Future.cancel(): no effect on a Future that is done.
CancelFuture(call) ==
    IF FutureDone(call) THEN call
    ELSE [call EXCEPT !.st = "cancelled", !.writes = @ + 1]

\* The outcomes the method handler can have for a method: what the role
\* adapter and the implementation object do with (method, params).
HandlerOutcomes(m) ==
    IF m = KnownMethod
    THEN {"ok", "reqerr", "validation", "exception", "unserializable"}
    ELSE {"notfound"}

\* The outcomes a handler has when it honours MethodHandler's declared
\* return type (a JSON value).
JsonOutcomes(m) == HandlerOutcomes(m) \ {"unserializable"}

\* The exception object itself is put in the payload.
ResponseForRawException(msg, outcome) ==
    CASE outcome = "ok" -> ResultFrame(msg.id, Echo(msg.params))
      [] outcome = "reqerr" -> ErrorFrame(msg.id, AuthRequired)
      [] outcome = "notfound" -> ErrorFrame(msg.id, MethodNotFound)
      [] outcome = "validation" -> ErrorFrame(msg.id, InvalidParams)
      [] OTHER -> ResultFrame(msg.id, "unserializable")

\* The payload of the Response for a Request, by handler outcome.
\* The Response carries the id after the Request's.
ResponseForNextId(msg, outcome) ==
    [ResponseForRawException(msg, outcome) EXCEPT !.id = msg.id + 1]

ResponseFor(msg, outcome) ==
    CASE outcome = "ok" -> ResultFrame(msg.id, Echo(msg.params))
      [] outcome = "unserializable" -> ResultFrame(msg.id, "unserializable")
      [] outcome = "reqerr" -> ErrorFrame(msg.id, AuthRequired)
      [] outcome = "notfound" -> ErrorFrame(msg.id, MethodNotFound)
      [] outcome = "validation" -> ErrorFrame(msg.id, InvalidParams)
      [] OTHER -> ErrorFrame(msg.id, InternalError)

\* What the receive loop does with a line it has read.
\* core: json.loads(line) raises on "garbage" and on "badutf8"; the second
\* json.loads, on line.decode(errors="ignore"), succeeds for "badutf8" and
\* a ParseError Response goes out when the object has an id that is not
\* null; a "nondict" value reaches _process_message, whose message.get
\* raises AttributeError out of the loop.
\* acp: data.decode('utf-8') stands outside the inner try, so "badutf8"
\* ends the loop through the outer `except Exception`; JSONDecodeError and
\* the TypeError of a key test on a "nondict" value are logged.
LineFate(im, f) ==
    CASE f.line = "json" -> "dispatch"
      [] f.line = "garbage" -> "drop"
      [] f.line = "nondict" -> IF im = "core" THEN "crash" ELSE "drop"
      [] OTHER -> IF im = "acp" THEN "stop"
                  ELSE IF f.hasId THEN "reply" ELSE "drop"

\* json.dumps raises on a value that is no JSON value.
Serializable(f) == ~(f.hasResult /\ f.result = "unserializable")

\* A write that puts the line in front of the lines not yet read.
WirePrepend(ch, closed, f) == IF closed THEN ch ELSE <<f>> \o ch

\* StreamWriter.write on a closed writer drops the data.
\* A write that puts the line in front of the last line of the wire.
WireBeforeLast(ch, closed, f) ==
    IF closed THEN ch
    ELSE IF ch = <<>> THEN <<f>>
    ELSE Append(Append(SubSeq(ch, 1, Len(ch) - 1), f), ch[Len(ch)])

WireAfterWrite(ch, closed, f) == IF closed THEN ch ELSE Append(ch, f)

\* ------------------------------------------------------------- Init
\* No Request is being followed through the adapters.
NoProbe == [phase |-> "off"]

\* Two Connections right after construction.
ConnInit ==
    /\ impl \in Impls
    /\ nextId = [c \in Conns |-> 0]
    /\ calls = [c \in Conns |-> <<>>]
    /\ pending = [c \in Conns |-> EmptyTable]
    /\ notifs = [c \in Conns |-> <<>>]
    /\ chan = [c \in Conns |-> <<>>]
    /\ eof = [c \in Conns |-> FALSE]
    /\ wclosed = [c \in Conns |-> FALSE]
    /\ lock = [c \in Conns |-> Free]
    /\ recv = [c \in Conns |-> IdleRecv]
    /\ closePc = [c \in Conns |-> "idle"]
    /\ closeCalls = [c \in Conns |-> 0]
    /\ faults = 0
    /\ suspends = 0
    /\ reqLog = [c \in Conns |-> <<>>]
    /\ notifLog = [c \in Conns |-> <<>>]

Init == ConnInit /\ probe = NoProbe

\* Operations started from outside the Connections so far.
IsTaskCall(call) == call.owner = "task"
\* The calls of c whose caller has abandoned them.
Abandoned(c) ==
    {k \in DOMAIN calls[c] : IsTaskCall(calls[c][k]) /\ calls[c][k].pos = "aborted"}
OpsStarted ==
    LET perConn(c) == Cardinality({k \in DOMAIN calls[c] : IsTaskCall(calls[c][k])}) + Len(notifs[c])
                      + closeCalls[c] + (IF closePc[c] = "wait" THEN 1 ELSE 0)
                      + Cardinality(Abandoned(c))
    IN  perConn("agent") + perConn("client") + faults
MayStartOp == OpsStarted < MaxOps

\* --------------------------------------------------- _send_obj pieces
\* writer.write(data) under the lock, then await drain(): the drain either
\* returns at once (the lock is released in the same step) or suspends the
\* task with the lock held.
\* The write without `async with self._write_lock`.
WriteWithoutLock(c, holder, f, suspend) ==
    /\ suspend => suspends < MaxSuspend
    /\ suspends' = IF suspend THEN suspends + 1 ELSE suspends
    /\ chan' = [chan EXCEPT ![Peer(c)] = WireAfterWrite(@, wclosed[c], f)]
    /\ lock' = [lock EXCEPT ![c] = IF suspend THEN holder ELSE Free]

WriteUnderLock(c, holder, f, suspend) ==
    /\ lock[c] = Free
    /\ suspend => suspends < MaxSuspend
    /\ suspends' = IF suspend THEN suspends + 1 ELSE suspends
    /\ chan' = [chan EXCEPT ![Peer(c)] = WireAfterWrite(@, wclosed[c], f)]
    /\ lock' = [lock EXCEPT ![c] = IF suspend THEN holder ELSE Free]

\* drain() on a closed writer raises ConnectionResetError: core swallows
\* it, acp lets it out of _send_message.
SendRaises(c) == impl = "acp" /\ wclosed[c]

\* Where a send_request task stands once its frame is written.
PosAfterWrite(c, suspend) ==
    IF suspend THEN "drain" ELSE IF SendRaises(c) THEN "failed" ELSE "await"

\* ------------------------------------------------------ send_request
\* send_request up to its first suspension: take an id, register the
\* Future, enter _send_obj; with the lock free the frame is written in the
\* same step.
StartCall(c, m, owner, suspend) ==
    LET a == AllocId(nextId[c])
        k == Len(calls[c]) + 1
        p == ParamOf(k)
        free == lock[c] = Free
    IN  /\ Len(calls[c]) + Len(calls[Peer(c)]) < MaxCalls
        /\ nextId' = [nextId EXCEPT ![c] = a.next]
        /\ pending' = [pending EXCEPT ![c] = TablePut(@, a.id, k)]
        /\ IF free
           THEN /\ WriteUnderLock(c, CallHolder(k), RequestFrame(a.id, m, p), suspend)
                /\ calls' = [calls EXCEPT ![c] =
                       Append(@, [NewCall(a.id, m, p, owner)
                                  EXCEPT !.pos = PosAfterWrite(c, suspend),
                                         !.alone = AllReturned(calls[c])])]
           ELSE /\ ~suspend
                /\ calls' = [calls EXCEPT ![c] =
                       Append(@, [NewCall(a.id, m, p, owner)
                                  EXCEPT !.alone = AllReturned(calls[c])])]
                /\ UNCHANGED <<chan, lock, suspends>>

SendRequest(c, m, suspend) ==
    /\ MayStartOp
    /\ StartCall(c, m, "task", suspend)
    /\ UNCHANGED <<probe, notifLog, impl, notifs, eof, wclosed, recv, closePc, closeCalls,
                   faults, reqLog>>

\* A send_request task that waited for the lock gets it and writes.
CallWrite(c, k, suspend) ==
    /\ k \in 1..Len(calls[c])
    /\ calls[c][k].pos = "send"
    /\ WriteUnderLock(c, CallHolder(k),
                      RequestFrame(calls[c][k].id, calls[c][k].method,
                                   calls[c][k].params), suspend)
    /\ calls' = [calls EXCEPT ![c][k].pos = PosAfterWrite(c, suspend)]
    /\ UNCHANGED <<probe, notifLog, impl, nextId, pending, notifs, eof, wclosed, recv, closePc,
                   closeCalls, faults, reqLog>>

\* The drain of a send_request task ends: the lock is released.
CallDrained(c, k) ==
    /\ k \in 1..Len(calls[c])
    /\ calls[c][k].pos = "drain"
    /\ lock[c] = CallHolder(k)
    /\ lock' = [lock EXCEPT ![c] = Free]
    /\ calls' = [calls EXCEPT ![c][k].pos = PosAfterWrite(c, FALSE)]
    /\ UNCHANGED <<probe, notifLog, impl, suspends, nextId, pending, notifs, chan, eof, wclosed, recv,
                   closePc, closeCalls, faults, reqLog>>

\* The caller of a send_request gives up on it: its task is cancelled (a
\* deadline of asyncio.wait_for, Task.cancel).  CancelledError is thrown at
\* the await the task is suspended at: waiting for the lock, it leaves the
\* queue; in its drain, `async with` releases the lock; awaiting the Future,
\* the Future is cancelled.  send_request has no cleanup: the entry of the
\* pending table stays.
\* The lock when CancelledError leaves the `async with` of task h.
\* The lock stays with the cancelled task.
LockKeptOnExit(l, h) == l

LockOnExit(l, h) == IF l = h THEN Free ELSE l

AbandonCall(call) ==
    [(IF call.pos = "await" THEN CancelFuture(call) ELSE call)
     EXCEPT !.pos = "aborted"]

CallerCancel(c, k) ==
    /\ k \in 1..Len(calls[c])
    /\ IsTaskCall(calls[c][k])
    /\ calls[c][k].pos \in {"send", "drain", "await"}
    /\ ~Returned(calls[c][k])
    /\ MayStartOp
    /\ Cardinality(Abandoned(c)) + Cardinality(Abandoned(Peer(c))) < MaxCancel
    /\ calls' = [calls EXCEPT ![c][k] = AbandonCall(@)]
    /\ lock' = [lock EXCEPT ![c] = LockOnExit(@, CallHolder(k))]
    /\ UNCHANGED <<probe, notifLog, impl, suspends, nextId, pending, notifs, chan, eof,
                   wclosed, recv, closePc, closeCalls, faults, reqLog>>

\* -------------------------------------------------- send_notification
NotifPosAfterWrite(c, suspend) ==
    IF suspend THEN "drain" ELSE IF SendRaises(c) THEN "failed" ELSE "done"

\* send_notification with a request id taken off the counter.
SendNotificationTakingId(c, m, suspend) ==
    LET n == Len(notifs[c]) + 1
        p == ParamOf(n)
        free == lock[c] = Free
    IN  /\ MayStartOp
        /\ Len(notifs[c]) + Len(notifs[Peer(c)]) < MaxNotifs
        /\ IF free
           THEN /\ WriteUnderLock(c, NotifHolder(n), NotificationFrame(m, p), suspend)
                /\ notifs' = [notifs EXCEPT ![c] =
                       Append(@, [method |-> m, params |-> p,
                                  alone |-> AllNotifsReturned(notifs[c]),
                                  pos |-> NotifPosAfterWrite(c, suspend)])]
           ELSE /\ ~suspend
                /\ notifs' = [notifs EXCEPT ![c] =
                       Append(@, [method |-> m, params |-> p,
                                  alone |-> AllNotifsReturned(notifs[c]),
                                  pos |-> "send"])]
                /\ UNCHANGED <<chan, lock, suspends>>
        /\ nextId' = [nextId EXCEPT ![c] = AllocId(@).next]
        /\ UNCHANGED <<probe, notifLog, impl, calls, pending, eof, wclosed, recv, closePc,
                       closeCalls, faults, reqLog>>

\* send_notification up to its first suspension: enter _send_obj; with the
\* lock free the frame is written in the same step.
SendNotification(c, m, suspend) ==
    LET n == Len(notifs[c]) + 1
        p == ParamOf(n)
        free == lock[c] = Free
    IN  /\ MayStartOp
        /\ Len(notifs[c]) + Len(notifs[Peer(c)]) < MaxNotifs
        /\ IF free
           THEN /\ WriteUnderLock(c, NotifHolder(n), NotificationFrame(m, p), suspend)
                /\ notifs' = [notifs EXCEPT ![c] =
                       Append(@, [method |-> m, params |-> p,
                                  alone |-> AllNotifsReturned(notifs[c]),
                                  pos |-> NotifPosAfterWrite(c, suspend)])]
           ELSE /\ ~suspend
                /\ notifs' = [notifs EXCEPT ![c] =
                       Append(@, [method |-> m, params |-> p,
                                  alone |-> AllNotifsReturned(notifs[c]),
                                  pos |-> "send"])]
                /\ UNCHANGED <<chan, lock, suspends>>
        /\ UNCHANGED <<probe, notifLog, impl, nextId, calls, pending, eof, wclosed, recv, closePc,
                       closeCalls, faults, reqLog>>

NotifWrite(c, n, suspend) ==
    /\ n \in 1..Len(notifs[c])
    /\ notifs[c][n].pos = "send"
    /\ WriteUnderLock(c, NotifHolder(n),
                      NotificationFrame(notifs[c][n].method, notifs[c][n].params),
                      suspend)
    /\ notifs' = [notifs EXCEPT ![c][n].pos = NotifPosAfterWrite(c, suspend)]
    /\ UNCHANGED <<probe, notifLog, impl, nextId, calls, pending, eof, wclosed, recv, closePc,
                   closeCalls, faults, reqLog>>

NotifDrained(c, n) ==
    /\ n \in 1..Len(notifs[c])
    /\ notifs[c][n].pos = "drain"
    /\ lock[c] = NotifHolder(n)
    /\ lock' = [lock EXCEPT ![c] = Free]
    /\ notifs' = [notifs EXCEPT ![c][n].pos = NotifPosAfterWrite(c, FALSE)]
    /\ UNCHANGED <<probe, notifLog, impl, suspends, nextId, calls, pending, chan, eof, wclosed, recv,
                   closePc, closeCalls, faults, reqLog>>

\* ------------------------------------------------------ receive loop
\* The Request the receive task is handling is the last entry of reqLog:
\* its id and params, the Responses written for it, whether its handling
\* is over, and how its handler ended ("none" while it has not).
LogRequest(log, msg) ==
    Append(log, [id |-> msg.id, params |-> msg.params, n |-> 0, fin |-> FALSE,
                 how |-> "none"])
\* A Notification handed to the handler, and whether the handler has ended.
LogNotification(log, msg) ==
    Append(log, [method |-> msg.method, params |-> msg.params, fin |-> FALSE])
LogOutcome(log, outcome) == [log EXCEPT ![Len(log)].how = outcome]
LogResponse(log) == [log EXCEPT ![Len(log)].n = @ + 1]
LogFinished(log) == [log EXCEPT ![Len(log)].fin = TRUE]

\* One iteration of the loop: readline, json.loads, _process_message up to
\* the handler call.  A Response is resolved within the step.
RecvRead(c) ==
    LET msg == Head(chan[c])
        kind == Classify(impl, msg)
        k == ResolveTarget(pending[c], msg)
    IN  /\ recv[c].pc = "read"
        /\ chan[c] # <<>>
        /\ LineFate(impl, msg) = "dispatch"
        /\ chan' = [chan EXCEPT ![c] = Tail(@)]
        /\ notifLog' = [notifLog EXCEPT ![c] =
              IF kind = "notification" THEN LogNotification(@, msg) ELSE @]
        /\ CASE kind = "request" ->
                  /\ recv' = [recv EXCEPT ![c] = [IdleRecv EXCEPT !.pc = "handler",
                                                                  !.msg = msg]]
                  /\ reqLog' = [reqLog EXCEPT ![c] = LogRequest(@, msg)]
                  /\ UNCHANGED <<calls, pending>>
             [] kind = "notification" ->
                  /\ recv' = [recv EXCEPT ![c] = [IdleRecv EXCEPT !.pc = "handler",
                                                                  !.msg = msg]]
                  /\ UNCHANGED <<calls, pending, reqLog>>
             [] kind = "response" /\ k = 0 ->
                  UNCHANGED <<calls, pending, recv, reqLog>>
             [] kind = "response" /\ k # 0 ->
                  /\ pending' = [pending EXCEPT ![c] = TableDel(@, msg.id)]
                  /\ IF FutureDone(calls[c][k])
                     THEN \* core: set_result on a done Future raises
                          \* InvalidStateError out of the loop; acp tests done()
                          /\ recv' = [recv EXCEPT ![c].pc =
                                        IF impl = "core" THEN "crashed" ELSE @]
                          /\ UNCHANGED calls
                     ELSE /\ calls' = [calls EXCEPT ![c][k] = SetFromFrame(impl, @, msg)]
                          /\ UNCHANGED recv
                  /\ UNCHANGED reqLog
             [] OTHER -> UNCHANGED <<calls, pending, recv, reqLog>>
        /\ UNCHANGED <<probe, impl, suspends, nextId, notifs, eof, wclosed, lock, closePc,
                       closeCalls, faults>>

\* One iteration of the loop on a line that does not reach the dispatch of
\* _process_message: the line is skipped, or answered with a ParseError
\* Response through _send_obj, or it ends the receive task.
RecvReadMalformed(c, suspend) ==
    LET msg == Head(chan[c])
        fate == LineFate(impl, msg)
        out == ErrorFrame(msg.id, ParseError)
    IN  /\ recv[c].pc = "read"
        /\ chan[c] # <<>>
        /\ fate # "dispatch"
        /\ IF fate = "reply" /\ lock[c] = Free
           THEN \* the write of _send_obj, in the step of the read
                /\ suspend => suspends < MaxSuspend
                /\ suspends' = IF suspend THEN suspends + 1 ELSE suspends
                /\ lock' = [lock EXCEPT ![c] = IF suspend THEN RecvHolder ELSE Free]
                /\ chan' = [chan EXCEPT
                      ![c] = Tail(@),
                      ![Peer(c)] = WireAfterWrite(@, wclosed[c], out)]
                /\ recv' = [recv EXCEPT ![c] =
                      IF suspend THEN [IdleRecv EXCEPT !.pc = "drain", !.msg = msg]
                      ELSE IdleRecv]
           ELSE /\ ~suspend
                /\ chan' = [chan EXCEPT ![c] = Tail(@)]
                /\ recv' = [recv EXCEPT ![c] =
                      CASE fate = "reply" ->
                             [IdleRecv EXCEPT !.pc = "send", !.msg = msg, !.out = out]
                        [] fate = "crash" -> [IdleRecv EXCEPT !.pc = "crashed"]
                        [] fate = "stop" -> [IdleRecv EXCEPT !.pc = "done"]
                        [] OTHER -> IdleRecv]
                /\ UNCHANGED <<lock, suspends>>
        /\ UNCHANGED <<probe, notifLog, impl, nextId, calls, pending, notifs, eof, wclosed,
                       closePc, closeCalls, faults, reqLog>>

\* readline returns b"" at end of stream: the loop breaks.
RecvEOF(c) ==
    /\ recv[c].pc = "read"
    /\ chan[c] = <<>>
    /\ eof[c]
    /\ recv' = [recv EXCEPT ![c].pc = "done"]
    /\ UNCHANGED <<probe, notifLog, impl, suspends, nextId, calls, pending, notifs, chan, eof, wclosed, lock,
                   closePc, closeCalls, faults, reqLog>>

\* The handler, running inside the receive task, makes a send_request of
\* its own back across the connection and awaits it.
HandlerNest(c, suspend) ==
    /\ recv[c].pc = "handler"
    /\ recv[c].msg.method = KnownMethod
    /\ StartCall(c, KnownMethod, "handler", suspend)
    /\ recv' = [recv EXCEPT ![c].pc = "nested", ![c].nested = Len(calls[c]) + 1]
    /\ UNCHANGED <<probe, notifLog, impl, notifs, eof, wclosed, closePc, closeCalls, faults,
                   reqLog>>

\* What a handler that awaited a nested call does once that call is over.
OutcomeAfterNested(call) ==
    CASE call.pos = "failed" -> "exception"
      [] call.st = "result" -> "ok"
      [] call.st = "error" -> "reqerr"
      [] OTHER -> "cancelled"

\* The handler may complete: it is running and not awaiting anything, or
\* the nested call it awaits is over.
HandlerMayFinish(c, outcome) ==
    \/ /\ recv[c].pc = "handler"
       /\ outcome \in HandlerOutcomes(recv[c].msg.method)
    \/ /\ recv[c].pc = "nested"
       /\ LET call == calls[c][recv[c].nested]
          IN  /\ FutureDone(call) \/ call.pos = "failed"
              /\ outcome = OutcomeAfterNested(call)

\* The handler completes.  For a Request the Response is built and handed
\* to _send_obj; for a Notification the outcome is dropped.
HandlerFinish(c, outcome, suspend) ==
    LET msg == recv[c].msg
        out == ResponseFor(msg, outcome)
        isReq == Classify(impl, msg) = "request"
    IN  /\ HandlerMayFinish(c, outcome)
        /\ CASE outcome = "cancelled" ->
                  \* CancelledError is no Exception: it ends the loop
                  /\ ~suspend
                  /\ recv' = [recv EXCEPT ![c] = [IdleRecv EXCEPT !.pc = "cancelled"]]
                  /\ reqLog' = [reqLog EXCEPT ![c] =
                        IF isReq THEN LogFinished(LogOutcome(@, outcome)) ELSE @]
                  /\ UNCHANGED <<chan, lock, suspends>>
             [] outcome # "cancelled" /\ ~isReq ->
                  /\ ~suspend
                  /\ recv' = [recv EXCEPT ![c] = IdleRecv]
                  /\ UNCHANGED <<chan, lock, suspends, reqLog>>
             [] outcome # "cancelled" /\ isReq /\ ~Serializable(out) ->
                  \* json.dumps raises TypeError in _send_obj, before the
                  \* lock: core has no except for it around the loop body,
                  \* acp logs it and reads on
                  /\ ~suspend
                  /\ recv' = [recv EXCEPT ![c] =
                        [IdleRecv EXCEPT !.pc = IF impl = "core" THEN "crashed"
                                                ELSE "read"]]
                  /\ reqLog' = [reqLog EXCEPT ![c] = LogFinished(LogOutcome(@, outcome))]
                  /\ UNCHANGED <<chan, lock, suspends>>
             [] outcome # "cancelled" /\ isReq /\ Serializable(out) /\ lock[c] = Free ->
                  /\ WriteUnderLock(c, RecvHolder, out, suspend)
                  /\ recv' = [recv EXCEPT ![c] =
                        IF suspend THEN [IdleRecv EXCEPT !.pc = "drain", !.msg = msg]
                        ELSE IdleRecv]
                  /\ reqLog' = [reqLog EXCEPT ![c] =
                        IF suspend THEN LogResponse(LogOutcome(@, outcome))
                        ELSE LogFinished(LogResponse(LogOutcome(@, outcome)))]
             [] OTHER ->
                  /\ ~suspend
                  /\ recv' = [recv EXCEPT ![c] =
                        [IdleRecv EXCEPT !.pc = "send", !.msg = msg, !.out = out]]
                  /\ reqLog' = [reqLog EXCEPT ![c] = LogOutcome(@, outcome)]
                  /\ UNCHANGED <<chan, lock, suspends>>
        /\ notifLog' = [notifLog EXCEPT ![c] =
              IF ~isReq /\ outcome # "cancelled" THEN LogFinished(@) ELSE @]
        /\ UNCHANGED <<probe, impl, nextId, calls, pending, notifs, eof, wclosed, closePc,
                       closeCalls, faults>>

\* The receive task, which waited for the lock, writes its Response (the
\* Response of a Request, or the ParseError Response for a line).
RecvWrite(c, suspend) ==
    /\ recv[c].pc = "send"
    /\ WriteUnderLock(c, RecvHolder, recv[c].out, suspend)
    /\ recv' = [recv EXCEPT ![c] =
          IF suspend THEN [@ EXCEPT !.pc = "drain", !.out = NoFrame] ELSE IdleRecv]
    /\ reqLog' = [reqLog EXCEPT ![c] =
          IF recv[c].msg.line # "json" THEN @
          ELSE IF suspend THEN LogResponse(@) ELSE LogFinished(LogResponse(@))]
    /\ UNCHANGED <<probe, notifLog, impl, nextId, calls, pending, notifs, eof, wclosed, closePc,
                   closeCalls, faults>>

\* The drain of the Response ends (a failed drain is swallowed by core and
\* logged by acp): the loop goes back to reading.
RecvDrained(c) ==
    /\ recv[c].pc = "drain"
    /\ lock[c] = RecvHolder
    /\ lock' = [lock EXCEPT ![c] = Free]
    /\ recv' = [recv EXCEPT ![c] = IdleRecv]
    /\ reqLog' = [reqLog EXCEPT ![c] =
          IF recv[c].msg.line # "json" THEN @ ELSE LogFinished(@)]
    /\ UNCHANGED <<probe, notifLog, impl, suspends, nextId, calls, pending, notifs, chan, eof, wclosed,
                   closePc, closeCalls, faults>>

\* ------------------------------------------------------------ close
\* What close() reads and writes of a Connection, as one record; raised
\* says whether the close() call ended with an exception.
ConnState(c) ==
    [recv |-> recv[c], calls |-> calls[c], pending |-> pending[c],
     lock |-> lock[c], log |-> reqLog[c], wclosed |-> wclosed[c],
     peerEof |-> eof[Peer(c)], raised |-> FALSE]

\* Task.cancel() on the receive task.  CancelledError is thrown at the
\* await the task is suspended at: a lock it holds is released by the
\* `async with`, a Future it awaits is cancelled, and the loop returns.
CancelReceiveTask(s) ==
    LET r == s.recv
        k == IF r.pc = "nested" THEN r.nested ELSE 0
        handling == /\ r.pc \in {"handler", "nested", "send", "drain"}
                    /\ r.msg.hasId
                    /\ r.msg.line = "json"
    IN  [s EXCEPT
           !.recv = [IdleRecv EXCEPT !.pc = "cancelled"],
           !.calls = IF k = 0 THEN @
                     ELSE [@ EXCEPT ![k] =
                             IF @.pos \in {"failed", "aborted"} THEN @
                             ELSE [(IF @.pos = "await" THEN CancelFuture(@) ELSE @)
                                   EXCEPT !.pos = "aborted"]],
           !.lock = IF @ = RecvHolder \/ (k # 0 /\ @ = CallHolder(k)) THEN Free
                    ELSE @,
           !.log = IF handling THEN LogFinished(@) ELSE @]

\* The loop over _pending_responses at the end of acp's close.
CancelAllPending(cs, t) ==
    [k \in DOMAIN cs |->
        IF \E i \in DOMAIN t : t[i] = k THEN CancelFuture(cs[k]) ELSE cs[k]]

\* close() without its `except asyncio.CancelledError: pass`.
AwaitRaisesCancelled(r) == r.pc \in {"crashed", "cancelled"}

\* `await task` re-raises the exception a task ended with; the
\* CancelledError of a cancelled task is caught by close().
AwaitRaises(r) == r.pc = "crashed"

\* close() without its `if not self._recv_task.done()` guard.
CloseBeginUnguarded(im, s) ==
    IF im = "core"
    THEN LET t == IF RecvStopped(s.recv) THEN s ELSE CancelReceiveTask(s)
         IN  [t EXCEPT !.raised = AwaitRaises(t.recv)]
    ELSE [(IF RecvStopped(s.recv) THEN s ELSE CancelReceiveTask(s))
          EXCEPT !.wclosed = TRUE, !.peerEof = TRUE]

\* close() up to its first suspension.  core: cancel the receive task if it
\* is not done and await it.  acp: cancel the task if it is not done, close
\* the writer, await wait_closed().
CloseBeginEffect(im, s) ==
    IF im = "core"
    THEN IF RecvStopped(s.recv) THEN s
         ELSE LET t == CancelReceiveTask(s)
              IN  [t EXCEPT !.raised = AwaitRaises(t.recv)]
    ELSE [(IF RecvStopped(s.recv) THEN s ELSE CancelReceiveTask(s))
          EXCEPT !.wclosed = TRUE, !.peerEof = TRUE]

\* close() suspends: always in acp (wait_closed), in core when it has a
\* receive task to await.
CloseSuspends(im, s) == im = "acp" \/ ~RecvStopped(s.recv)

\* close() after its suspension.  core: the awaited task ended cancelled and
\* the CancelledError is swallowed.  acp: cancel every Future of the pending
\* table that is not done.
CloseFinishEffect(im, s) ==
    IF im = "core" THEN s
    ELSE [s EXCEPT !.calls = CancelAllPending(@, s.pending)]

\* A whole close() call with nothing running in between.
CloseEffect(im, s) == CloseFinishEffect(im, CloseBeginEffect(im, s))

SetConnState(c, t) ==
    /\ recv' = [recv EXCEPT ![c] = t.recv]
    /\ calls' = [calls EXCEPT ![c] = t.calls]
    /\ lock' = [lock EXCEPT ![c] = t.lock]
    /\ reqLog' = [reqLog EXCEPT ![c] = t.log]
    /\ wclosed' = [wclosed EXCEPT ![c] = t.wclosed]
    /\ eof' = [eof EXCEPT ![Peer(c)] = t.peerEof]

CloseBegin(c) ==
    /\ closePc[c] = "idle"
    /\ MayStartOp
    /\ closeCalls[c] + closeCalls[Peer(c)]
         + Cardinality({d \in Conns : closePc[d] = "wait"}) < MaxClose
    /\ SetConnState(c, CloseBeginEffect(impl, ConnState(c)))
    /\ IF CloseSuspends(impl, ConnState(c))
       THEN /\ closePc' = [closePc EXCEPT ![c] = "wait"]
            /\ UNCHANGED closeCalls
       ELSE /\ closeCalls' = [closeCalls EXCEPT ![c] = @ + 1]
            /\ UNCHANGED closePc
    /\ UNCHANGED <<probe, notifLog, impl, suspends, nextId, pending, notifs, chan, faults>>

CloseFinish(c) ==
    /\ closePc[c] = "wait"
    /\ closePc' = [closePc EXCEPT ![c] = "idle"]
    /\ closeCalls' = [closeCalls EXCEPT ![c] = @ + 1]
    /\ SetConnState(c, CloseFinishEffect(impl, ConnState(c)))
    /\ UNCHANGED <<probe, notifLog, impl, suspends, nextId, pending, notifs, chan, faults>>

\* ------------------------------------------------------ environment
\* The owner of c's writer closes it (or c's process ends): c's later
\* writes are dropped and the peer reads end-of-file after what is queued.
StreamDown(c) ==
    /\ ~wclosed[c]
    /\ MayStartOp
    /\ faults < MaxFaults
    /\ faults' = faults + 1
    /\ wclosed' = [wclosed EXCEPT ![c] = TRUE]
    /\ eof' = [eof EXCEPT ![Peer(c)] = TRUE]
    /\ UNCHANGED <<probe, notifLog, impl, suspends, nextId, calls, pending, notifs, chan, lock, recv,
                   closePc, closeCalls, reqLog>>

\* Frames a peer that is not this implementation may put on the stream.
StaleId == MaxCalls + 5
InjectFrames ==
    {ResultFrame(i, "forged") : i \in 0..(MaxCalls - 1)}
    \cup {ResultFrame(StaleId, "forged")}
    \cup {EmptyResponseFrame(0)}
    \cup {RawLine("garbage", NoFrame), RawLine("nondict", NoFrame),
          RawLine("badutf8", RequestFrame(StaleId, KnownMethod, "forged")),
          RawLine("badutf8", NotificationFrame(KnownMethod, "forged"))}

Inject(c, f) ==
    /\ MayStartOp
    /\ faults < MaxFaults
    /\ ~eof[c]
    /\ faults' = faults + 1
    /\ chan' = [chan EXCEPT ![c] = Append(@, f)]
    /\ UNCHANGED <<probe, notifLog, impl, suspends, nextId, calls, pending, notifs, eof, wclosed, lock, recv,
                   closePc, closeCalls, reqLog>>

\* ---------------------------------------------------- specifications
Next ==
    \/ \E c \in Conns, m \in Methods, s \in BOOLEAN : SendRequest(c, m, s)
    \/ \E c \in Conns, k \in 1..MaxCalls, s \in BOOLEAN : CallWrite(c, k, s)
    \/ \E c \in Conns, k \in 1..MaxCalls : CallDrained(c, k)
    \/ \E c \in Conns, k \in 1..MaxCalls : CallerCancel(c, k)
    \/ \E c \in Conns, m \in Methods, s \in BOOLEAN : SendNotification(c, m, s)
    \/ \E c \in Conns, n \in 1..MaxNotifs, s \in BOOLEAN : NotifWrite(c, n, s)
    \/ \E c \in Conns, n \in 1..MaxNotifs : NotifDrained(c, n)
    \/ \E c \in Conns : RecvRead(c)
    \/ \E c \in Conns, s \in BOOLEAN : RecvReadMalformed(c, s)
    \/ \E c \in Conns : RecvEOF(c)
    \/ \E c \in Conns, s \in BOOLEAN : HandlerNest(c, s)
    \/ \E c \in Conns, o \in HandlerOutcomes(KnownMethod) \cup {"notfound", "cancelled"},
          s \in BOOLEAN : HandlerFinish(c, o, s)
    \/ \E c \in Conns, s \in BOOLEAN : RecvWrite(c, s)
    \/ \E c \in Conns : RecvDrained(c)
    \/ \E c \in Conns : CloseBegin(c)
    \/ \E c \in Conns : CloseFinish(c)
    \/ \E c \in Conns : StreamDown(c)
    \/ \E c \in Conns, f \in InjectFrames : Inject(c, f)

Spec == Init /\ [][Next]_vars

\* Two Connections on reliable streams that stay open, with handlers that
\* terminate and return JSON values: no close, no fault, no nested call.
\* The event loop runs every task that can run, and every drain ends.
LiveNext ==
    \/ \E c \in Conns, m \in Methods, s \in BOOLEAN : SendRequest(c, m, s)
    \/ \E c \in Conns, k \in 1..MaxCalls, s \in BOOLEAN : CallWrite(c, k, s)
    \/ \E c \in Conns, k \in 1..MaxCalls : CallDrained(c, k)
    \/ \E c \in Conns, m \in Methods, s \in BOOLEAN : SendNotification(c, m, s)
    \/ \E c \in Conns, n \in 1..MaxNotifs, s \in BOOLEAN : NotifWrite(c, n, s)
    \/ \E c \in Conns, n \in 1..MaxNotifs : NotifDrained(c, n)
    \/ \E c \in Conns : RecvRead(c)
    \/ \E c \in Conns, o \in JsonOutcomes(KnownMethod) \cup {"notfound"},
          s \in BOOLEAN : HandlerFinish(c, o, s)
    \/ \E c \in Conns, s \in BOOLEAN : RecvWrite(c, s)
    \/ \E c \in Conns : RecvDrained(c)

LiveFairness ==
    \A c \in Conns :
        /\ WF_vars(\E k \in 1..MaxCalls, s \in BOOLEAN : CallWrite(c, k, s))
        /\ WF_vars(\E k \in 1..MaxCalls : CallDrained(c, k))
        /\ WF_vars(\E n \in 1..MaxNotifs, s \in BOOLEAN : NotifWrite(c, n, s))
        /\ WF_vars(\E n \in 1..MaxNotifs : NotifDrained(c, n))
        /\ WF_vars(RecvRead(c))
        /\ WF_vars(\E o \in JsonOutcomes(KnownMethod) \cup {"notfound"},
                      s \in BOOLEAN : HandlerFinish(c, o, s))
        /\ WF_vars(\E s \in BOOLEAN : RecvWrite(c, s))
        /\ WF_vars(RecvDrained(c))

LiveSpec == Init /\ [][LiveNext]_vars /\ LiveFairness

\* ---------------------------------------------------- role adapters
\* One method string per kind of branch of the adapters' handlers.
InitializeMethod == "initialize"
LoadMethod == "session/load"
TerminalMethod == "terminal/create"
AdapterMethods ==
    {InitializeMethod, LoadMethod, KnownMethod, TerminalMethod, UnknownMethod}

\* The methods the handler of role r compares the method string with.
MethodTable(im, r) ==
    IF r = "agent" THEN {InitializeMethod, LoadMethod}
    ELSE IF im = "core" THEN {KnownMethod, TerminalMethod}
    ELSE {KnownMethod}

\* The methods whose params the handler validates against a schema type;
\* core hands the params of the terminal methods on as they are.
Validated(im, r, m) == m \in MethodTable(im, r) \ {TerminalMethod}

\* Error data by shape: null, a dict with a "details" key, a dict without
\* one, a value that is no dict.
ErrData == {"null", "details", "dict", "nondict"}
Truthy(d) == d # "null"

\* The RequestError values each implementation can construct: acp's
\* constructor takes a details string and wraps it.
RequestErrors(im) ==
    [code : {AuthRequired, InvalidRequest},
     message : {"Authentication required", "custom"},
     data : IF im = "core" THEN ErrData ELSE {"null", "details"}]

\* RequestError.method_not_found / invalid_params / internal_error as the
\* adapters and the Connection call them.
MethodNotFoundError(im) ==
    [code |-> MethodNotFound, message |-> "Method not found",
     data |-> IF im = "core" THEN "dict" ELSE "details"]
InvalidParamsError(im) ==
    [code |-> InvalidParams, message |-> "Invalid params",
     data |-> IF im = "core" THEN "nondict" ELSE "details"]
InternalErrorFor(im) ==
    [code |-> InternalError, message |-> "Internal error", data |-> "details"]

\* The handler with the validation of params left out.
AdapterHandlerNoValidation(im, r, m, valid, supports, behaviour) ==
    IF m \notin MethodTable(im, r) THEN [outcome |-> "notfound", invoked |-> FALSE]
    ELSE IF m = LoadMethod /\ ~supports
    THEN [outcome |-> "notfound", invoked |-> FALSE]
    ELSE IF m = TerminalMethod /\ ~supports
    THEN [outcome |-> "exception", invoked |-> FALSE]
    ELSE [outcome |-> behaviour, invoked |-> TRUE]

\* The handler without its final raise: an unknown method returns None.
AdapterHandlerNoCatchAll(im, r, m, valid, supports, behaviour) ==
    IF m \notin MethodTable(im, r) THEN [outcome |-> "ok", invoked |-> FALSE]
    ELSE IF im = "core" /\ m = LoadMethod /\ ~supports
    THEN [outcome |-> "notfound", invoked |-> FALSE]
    ELSE IF Validated(im, r, m) /\ ~valid
    THEN [outcome |-> "validation", invoked |-> FALSE]
    ELSE IF m = LoadMethod /\ ~supports
    THEN [outcome |-> "notfound", invoked |-> FALSE]
    ELSE IF m = TerminalMethod /\ ~supports
    THEN [outcome |-> "exception", invoked |-> FALSE]
    ELSE [outcome |-> behaviour, invoked |-> TRUE]

\* The handler of a role adapter on (method, params): how it ends and
\* whether the implementation object's operation was called.  valid: the
\* params match the method's schema; supports: the implementation object
\* has the optional operation; behaviour: what the operation does.
\* core tests hasattr for session/load before it validates and looks the
\* terminal operations up with getattr; acp validates first and reaches the
\* base class's load_session, which raises MethodNotFound.
AdapterHandler(im, r, m, valid, supports, behaviour) ==
    IF m \notin MethodTable(im, r) THEN [outcome |-> "notfound", invoked |-> FALSE]
    ELSE IF im = "core" /\ m = LoadMethod /\ ~supports
    THEN [outcome |-> "notfound", invoked |-> FALSE]
    ELSE IF Validated(im, r, m) /\ ~valid
    THEN [outcome |-> "validation", invoked |-> FALSE]
    ELSE IF m = LoadMethod /\ ~supports
    THEN [outcome |-> "notfound", invoked |-> FALSE]
    ELSE IF m = TerminalMethod /\ ~supports
    THEN [outcome |-> "exception", invoked |-> FALSE]
    ELSE [outcome |-> behaviour, invoked |-> TRUE]

\* Every failure reported as invalid params.
ErrorRaisedAsInvalid(im, outcome, err) ==
    CASE outcome = "reqerr" -> err
      [] outcome = "notfound" -> MethodNotFoundError(im)
      [] OTHER -> InvalidParamsError(im)

\* The RequestError the Connection builds the error payload from.
ErrorRaised(im, outcome, err) ==
    CASE outcome = "reqerr" -> err
      [] outcome = "notfound" -> MethodNotFoundError(im)
      [] outcome = "validation" -> InvalidParamsError(im)
      [] OTHER -> InternalErrorFor(im)

\* An error object is the record of its keys; data "absent": no data key.
ErrorObj(code, message, hasData, data) ==
    [isError |-> TRUE, code |-> code, message |-> message,
     hasData |-> hasData, data |-> data]
ResultObj == [isError |-> FALSE, code |-> 0, message |-> "none",
              hasData |-> FALSE, data |-> "absent"]

\* The error object without the error's data.
ToErrorObjNoData(im, e) == ErrorObj(e.code, e.message, FALSE, "absent")

\* RequestError.to_error_obj (core: the data key always) and
\* RequestError.to_result (acp: the data key when data is truthy).
ToErrorObj(im, e) ==
    IF im = "core" THEN ErrorObj(e.code, e.message, TRUE, e.data)
    ELSE IF Truthy(e.data) THEN ErrorObj(e.code, e.message, TRUE, e.data)
    ELSE ErrorObj(e.code, e.message, FALSE, "absent")

\* What the caller of send_request gets from an error object.  core builds
\* RequestError(code, message, data); acp reads data.get("details") off the
\* data, which raises AttributeError on a data that is no dict and leaves
\* the Future unset, and keeps only the details.
FromErrorObj(im, obj) ==
    IF im = "core"
    THEN [kind |-> "RequestError", code |-> obj.code, message |-> obj.message,
          data |-> IF obj.hasData THEN obj.data ELSE "null"]
    ELSE IF obj.hasData /\ obj.data \in {"null", "nondict"}
    THEN [kind |-> "AttributeError", code |-> 0, message |-> "none",
          data |-> "null"]
    ELSE [kind |-> "RequestError", code |-> obj.code, message |-> obj.message,
          data |-> IF obj.hasData /\ obj.data = "details" THEN "details"
                   ELSE "null"]

\* A Request followed through the adapter of role `role`: the inputs, then
\* how the handler ended, the Response payload, and what the caller got.
NoCaller == [kind |-> "none", code |-> 0, message |-> "none", data |-> "null"]
\* made: the calls of the user's factory so far; target: the implementation
\* object the handler used, numbered in the order the factory returned
\* them; n: the Requests dispatched.  obj, kind: a decoded object given to
\* _process_message alone, and what it was handled as.
ProbeOf(r, m, valid, supports, behaviour, err) ==
    [phase |-> "request", role |-> r, method |-> m, valid |-> valid,
     supports |-> supports, behaviour |-> behaviour, err |-> err,
     outcome |-> "none", invoked |-> FALSE, resp |-> ResultObj,
     caller |-> NoCaller, made |-> 0, target |-> 0, n |-> 0,
     obj |-> NoFrame, kind |-> "none"]

\* The calls of the factory (to_agent, to_client) the adapter's constructor
\* makes, and those its handler makes for one inbound message: acp's
\* ClientSideConnection calls to_client inside the handler.
FactoryCallsAtConstruction(im, r) == IF im = "acp" /\ r = "client" THEN 0 ELSE 1
FactoryCallsPerInbound(im, r) == IF im = "acp" /\ r = "client" THEN 1 ELSE 0
\* The object the handler calls the operation on, after `made` factory calls.
RoutedTo(im, r, made) == IF im = "acp" /\ r = "client" THEN made ELSE 1

\* The objects json.loads may hand to _process_message: with or without id,
\* the method a string, null or absent, with or without result.
DecodedObjects ==
    {Frame(hasId, IF hasId THEN 0 ELSE -1, m, "none", hasResult,
           IF hasResult THEN "forged" ELSE "none", FALSE, 0) :
        hasId \in BOOLEAN, m \in {"absent", "null", KnownMethod},
        hasResult \in BOOLEAN}

Behaviours == {"ok", "reqerr", "exception"}

AdapterInit ==
    /\ ConnInit
    /\ probe \in {[ProbeOf(r, m, v, s, b, e)
                     EXCEPT !.made = FactoryCallsAtConstruction(impl, r)] :
                    r \in Conns, m \in AdapterMethods, v \in BOOLEAN,
                    s \in BOOLEAN, b \in Behaviours, e \in RequestErrors(impl)}
                \cup {[ProbeOf("agent", UnknownMethod, TRUE, TRUE, "ok",
                               MethodNotFoundError(impl))
                       EXCEPT !.phase = "decoded", !.obj = f] : f \in DecodedObjects}

ConnVars == <<impl, nextId, calls, pending, notifs, chan, eof, wclosed, lock,
              recv, closePc, closeCalls, faults, suspends, reqLog, notifLog>>

\* The Request goes through the handler and _process_message builds the
\* Response payload.
Dispatch ==
    LET h == AdapterHandler(impl, probe.role, probe.method, probe.valid,
                            probe.supports, probe.behaviour)
    IN  /\ probe.phase = "request"
        /\ probe' = [probe EXCEPT
              !.phase = "response",
              !.n = @ + 1,
              !.made = @ + FactoryCallsPerInbound(impl, probe.role),
              !.target = RoutedTo(impl, probe.role,
                                  probe.made + FactoryCallsPerInbound(impl, probe.role)),
              !.outcome = h.outcome,
              !.invoked = h.invoked,
              !.resp = IF h.outcome = "ok" THEN ResultObj
                       ELSE ToErrorObj(impl, ErrorRaised(impl, h.outcome, probe.err))]
        /\ UNCHANGED ConnVars

\* Error objects a peer that is not this implementation may answer with:
\* data absent, null, or of any shape.
ForeignErrorObjs ==
    {ErrorObj(AuthRequired, "custom", FALSE, "absent")}
    \cup {ErrorObj(AuthRequired, "custom", TRUE, d) : d \in ErrData}

ForeignReply(obj) ==
    /\ probe.phase = "request"
    /\ probe' = [probe EXCEPT !.phase = "response", !.outcome = "foreign",
                              !.resp = obj]
    /\ UNCHANGED ConnVars

\* The Response reaches the caller's Connection, which has the id pending.
Deliver ==
    /\ probe.phase = "response"
    /\ probe' = [probe EXCEPT
          !.phase = "done",
          !.caller = IF probe.resp.isError THEN FromErrorObj(impl, probe.resp)
                     ELSE [NoCaller EXCEPT !.kind = "result"]]
    /\ UNCHANGED ConnVars

\* Another Request with the same inputs arrives at the adapter.
NextRequest ==
    /\ probe.phase = "done"
    /\ probe.n < MaxInbound
    /\ probe' = [probe EXCEPT !.phase = "request", !.outcome = "none",
                              !.invoked = FALSE, !.resp = ResultObj,
                              !.caller = NoCaller]
    /\ UNCHANGED ConnVars

\* _process_message on a decoded object: the branch it takes.
ClassifyObject ==
    /\ probe.phase = "decoded"
    /\ probe' = [probe EXCEPT !.phase = "classified",
                              !.kind = Classify(impl, probe.obj)]
    /\ UNCHANGED ConnVars

AdapterNext ==
    \/ Dispatch
    \/ \E obj \in ForeignErrorObjs : ForeignReply(obj)
    \/ Deliver
    \/ NextRequest
    \/ ClassifyObject

AdapterSpec == AdapterInit /\ [][AdapterNext]_vars

\* ------------------------------------------------------------ claims
\* C1  Id isolation: the Future of a send_request call is written at most
\* once; a Response that resolves it carries the call's own id and the
\* outcome is that Response's payload; between the two Connections alone
\* (no foreign frame on the wire) a result is the answer to the call's
\* own params.
C1_IdIsolation ==
    \A c \in Conns : \A k \in DOMAIN calls[c] :
        LET call == calls[c][k]
        IN  /\ call.writes <= 1
            /\ call.st \in {"result", "error"} =>
                  /\ call.by.hasId /\ call.by.id = call.id
                  /\ call.st = "result" =>
                        call.val = (IF call.by.hasResult THEN call.by.result ELSE "none")
                  /\ call.st = "error" => call.by.hasError /\ call.code = call.by.code
            /\ (faults = 0 /\ call.st = "result") => call.val = Echo(call.params)

\* Two calls of one Connection, the second resolved while the first is
\* still outstanding.
C1_Witness ==
    \E c \in Conns :
        /\ Len(calls[c]) >= 2
        /\ calls[c][1].st = "pending"
        /\ calls[c][2].st = "result"

C6_IdsSequential ==
    \A c \in Conns :
        /\ nextId[c] = Len(calls[c])
        /\ \A k \in DOMAIN calls[c] : calls[c][k].id = k - 1

C6_Witness == \E c \in Conns : Len(calls[c]) >= 2 /\ calls[c][2].pos = "send"

\* C3  A handler that awaits a nested send_request back across the same
\* connection does not deadlock: while the handler awaits the nested call
\* and the Response to that call is the next frame on the inbound stream,
\* the receive loop of the Connection can read it.
C3_NestedResponseIsRead ==
    \A c \in Conns :
        ( /\ faults = 0 /\ closeCalls[c] = 0 /\ closePc[c] = "idle"
          /\ recv[c].pc = "nested"
          /\ calls[c][recv[c].nested].pos = "await"
          /\ chan[c] # <<>>
          /\ Classify(impl, Head(chan[c])) = "response"
          /\ Head(chan[c]).id = calls[c][recv[c].nested].id )
        => ENABLED RecvRead(c)

\* C4  Handler execution does not block the receive loop: while the handler
\* of an inbound Request or Notification is in progress and a later frame
\* is waiting on the inbound stream, the Connection can read that frame.
C4_ReadsWhileHandling ==
    \A c \in Conns :
        ( /\ faults = 0 /\ closeCalls[c] = 0 /\ closePc[c] = "idle"
          /\ recv[c].pc = "handler"
          /\ chan[c] # <<>> )
        => ENABLED RecvRead(c)

\* C5  Exactly one Response per inbound Request: never two, and once the
\* handling of the Request is over, not zero.
C5_ExactlyOneResponse ==
    \A c \in Conns : \A i \in DOMAIN reqLog[c] :
        /\ reqLog[c][i].n <= 1
        /\ reqLog[c][i].fin => reqLog[c][i].n = 1

\* C7  When close() returns, no caller of send_request on the Connection
\* is still suspended, every call that was outstanding has its Future
\* cancelled, and the close has written no frame.
C7_CloseCancelsOutstanding ==
    [][\A c \in Conns :
          closeCalls'[c] > closeCalls[c] =>
             /\ \A k \in DOMAIN calls'[c] : ~Suspended(calls'[c][k])
             /\ \A k \in DOMAIN calls[c] :
                   Suspended(calls[c][k]) => calls'[c][k].st = "cancelled"
             /\ chan' = chan]_vars

\* C8  When the receive loop ends on end-of-file, every send_request that
\* awaits its Response at that moment is resolved with a failure.
C8_EofFailsInFlight ==
    [][\A c \in Conns :
          (recv[c].pc = "read" /\ recv'[c].pc = "done") =>
             \A k \in DOMAIN calls[c] :
                 Suspended(calls[c][k]) =>
                    calls'[c][k].st \in {"error", "cancelled"}]_vars

\* C9  After close() has returned, a send_request or send_notification
\* fails: the call writes no frame, adds no pending entry, does not come to
\* await a Response, and a notification does not complete as sent.
C9_SendAfterCloseFails ==
    [][\A c \in Conns :
          (closeCalls[c] > 0 /\ closePc[c] = "idle") =>
             /\ Len(calls'[c]) > Len(calls[c]) =>
                   /\ calls'[c][Len(calls'[c])].pos # "await"
                   /\ pending'[c] = pending[c]
                   /\ chan'[Peer(c)] = chan[Peer(c)]
             /\ Len(notifs'[c]) > Len(notifs[c]) =>
                   /\ notifs'[c][Len(notifs'[c])].pos # "done"
                   /\ chan'[Peer(c)] = chan[Peer(c)]]_vars

ReadsHead(c) ==
    /\ recv[c].pc = "read"
    /\ chan[c] # <<>>
    /\ chan'[c] = Tail(chan[c])
    /\ closePc' = closePc /\ closeCalls' = closeCalls

\* C11  A second Response for an id whose call a Response has already
\* resolved is a no-op: the outcome of every call, the pending table, the
\* id counter and the receive task are as before, and nothing is written.
C11_DuplicateResponseNoOp ==
    [][\A c \in Conns :
          ( /\ ReadsHead(c)
            /\ Head(chan[c]).method = "absent"
            /\ Head(chan[c]).hasId
            /\ \E k \in DOMAIN calls[c] :
                  /\ calls[c][k].id = Head(chan[c]).id
                  /\ calls[c][k].st \in {"result", "error"} )
          => /\ calls'[c] = calls[c]
             /\ pending'[c] = pending[c]
             /\ nextId'[c] = nextId[c]
             /\ recv'[c] = recv[c]
             /\ chan'[Peer(c)] = chan[Peer(c)]]_vars

\* A call was resolved by a foreign Response, and the Response its peer
\* wrote for the same id was read afterwards.
C11_Witness ==
    \E c \in Conns :
        /\ Len(calls[c]) >= 1
        /\ calls[c][1].st = "result" /\ calls[c][1].by.result = "forged"
        /\ Len(reqLog[Peer(c)]) >= 1
        /\ reqLog[Peer(c)][1].fin /\ reqLog[Peer(c)][1].n = 1
        /\ ~wclosed[Peer(c)]
        /\ chan[c] = <<>>
        /\ recv[c].pc = "read"

\* C12  A Response whose id was never registered on the Connection is
\* dropped: calls, pending table, id counter and receive task are as before,
\* nothing is written, and the loop is back at reading.
C12_UnknownIdDropped ==
    [][\A c \in Conns :
          ( /\ ReadsHead(c)
            /\ Head(chan[c]).method = "absent"
            /\ Head(chan[c]).hasId
            /\ \A k \in DOMAIN calls[c] : calls[c][k].id # Head(chan[c]).id )
          => /\ calls'[c] = calls[c]
             /\ pending'[c] = pending[c]
             /\ nextId'[c] = nextId[c]
             /\ recv'[c] = recv[c]
             /\ chan'[Peer(c)] = chan[Peer(c)]]_vars

\* A foreign Response was read on a Connection where its id was not
\* registered, and the call outstanding on c still awaits its Response.
C12_Witness ==
    \E c \in Conns :
        /\ Len(calls[c]) = 1 /\ Len(calls[Peer(c)]) = 0
        /\ calls[c][1].st = "pending" /\ calls[c][1].pos = "await"
        /\ pending[c] = TablePut(EmptyTable, 0, 1)
        /\ faults = 1
        /\ \A d \in Conns : ~wclosed[d] /\ chan[d] = <<>>
        /\ recv[c].pc = "read"

\* C13  An inbound Notification never has a frame written back: when its
\* handler ends, however it ends, nothing is put on the wire, no Response
\* is logged, and the receive loop is back at reading.
C13_NotificationNoReply ==
    [][\A c \in Conns :
          ( /\ recv[c].pc \in {"handler", "nested"}
            /\ ~recv[c].msg.hasId
            /\ recv'[c].pc \notin {"handler", "nested"}
            /\ closePc' = closePc /\ closeCalls' = closeCalls )
          => /\ chan' = chan
             /\ reqLog' = reqLog
             /\ recv'[c] = IdleRecv]_vars

\* A Notification for an unknown method was handled (its handler raised
\* MethodNotFound), nothing came back to the sender, and the Connection has
\* since taken up a Request.
C13_Witness ==
    \E c \in Conns :
        /\ Len(notifs[Peer(c)]) = 1
        /\ notifs[Peer(c)][1].method = UnknownMethod
        /\ notifs[Peer(c)][1].pos = "done"
        /\ Len(reqLog[c]) = 1
        /\ recv[c].pc = "handler" /\ recv[c].msg.hasId
        /\ chan[Peer(c)] = <<>> /\ chan[c] = <<>>
        /\ faults = 0 /\ closeCalls[c] = 0 /\ closePc[c] = "idle"

\* The ways a handler fails: it raises RequestError (MethodNotFound
\* included), params fail validation, or it raises another Exception.
HandlerFailures == {"reqerr", "notfound", "validation", "exception"}

\* C14  A handler failure while processing a Request does not stop the
\* receive loop: in the step in which the handler fails the receive task
\* goes on to write the error Response or is back at reading, and it is
\* back at reading only with the error Response written.
C14_HandlerFailureKeepsLoop ==
    [][\A c \in Conns :
          ( /\ reqLog[c] # <<>>
            /\ Len(reqLog'[c]) = Len(reqLog[c])
            /\ reqLog[c][Len(reqLog[c])].how = "none"
            /\ reqLog'[c][Len(reqLog[c])].how \in HandlerFailures )
          => /\ recv'[c].pc \in {"read", "send", "drain"}
             /\ recv'[c].pc = "read" => reqLog'[c][Len(reqLog[c])].n = 1]_vars

\* After a Request whose handler failed, the Connection has read and
\* dispatched a second Request.
C14_Witness ==
    \E c \in Conns :
        /\ Len(reqLog[c]) = 2
        /\ reqLog[c][1].how \in HandlerFailures
        /\ reqLog[c][1].n = 1
        /\ reqLog[c][2].how = "ok"

\* The handler of the followed Request has run (no foreign peer answered).
Dispatched == probe.phase \in {"response", "done"} /\ probe.outcome # "foreign"

\* The data an error object carries: a missing key reads as null.
WireData(obj) == IF obj.hasData THEN obj.data ELSE "null"

\* C15  When the handler of a Request raises a RequestError, the Response
\* carries that error: the same code, the same message, the same data.
C15_ErrorCarriedExactly ==
    (Dispatched /\ probe.outcome = "reqerr")
    => /\ probe.resp.isError
       /\ probe.resp.code = probe.err.code
       /\ probe.resp.message = probe.err.message
       /\ WireData(probe.resp) = probe.err.data

\* An operation raised a RequestError that carries data, and the Response
\* for it was built.
C15_Witness ==
    /\ Dispatched /\ probe.outcome = "reqerr" /\ probe.invoked
    /\ probe.err.data = "details" /\ probe.err.message = "custom"

\* C16  When the handler fails with something that is neither RequestError
\* nor a validation failure, the Response is an error with code -32603 and
\* the caller of send_request fails with an error, not a result.
C16_OtherFailureIsInternalError ==
    (Dispatched /\ probe.outcome = "exception")
    => /\ probe.resp.isError
       /\ probe.resp.code = InternalError
       /\ probe.phase = "done" =>
             /\ probe.caller.kind = "RequestError"
             /\ probe.caller.code = InternalError

\* The operation was called, raised an Exception, and the caller has its
\* outcome.
C16_Witness ==
    /\ probe.phase = "done" /\ probe.outcome = "exception" /\ probe.invoked
    /\ probe.caller.kind = "RequestError"

\* The followed Request names a method of the adapter's table that has a
\* payload schema, and its params do not match the schema.
MalformedKnown ==
    /\ Dispatched
    /\ Validated(impl, probe.role, probe.method)
    /\ ~probe.valid

C18_UnknownMethodNotFound ==
    (Dispatched /\ probe.method \notin MethodTable(impl, probe.role))
    => /\ probe.resp.isError
       /\ probe.resp.code = MethodNotFound
       /\ ~probe.invoked

\* The agent-side adapter turned down a method of the client's table.
C18_Witness ==
    /\ Dispatched
    /\ probe.role = "agent" /\ probe.method = KnownMethod
    /\ probe.resp.code = MethodNotFound

\* C19  When the agent object does not support load-session, every
\* session/load Request is answered with an error of code -32601, whatever
\* its params.
C19_UnsupportedLoadNotFound ==
    (Dispatched /\ probe.role = "agent" /\ probe.method = LoadMethod
       /\ ~probe.supports)
    => /\ probe.resp.isError
       /\ probe.resp.code = MethodNotFound

\* C20  For every error Response matched to a pending call, with data
\* present, absent or null, the caller fails with a RequestError of the
\* peer's code, message and data.
C20_CallerGetsPeerError ==
    (probe.phase = "done" /\ probe.resp.isError)
    => /\ probe.caller.kind = "RequestError"
       /\ probe.caller.code = probe.resp.code
       /\ probe.caller.message = probe.resp.message
       /\ probe.caller.data = WireData(probe.resp)

\* C21  A line that cannot be parsed never stops the receive loop: in the
\* step in which the loop reads such a line the receive task does not end,
\* so that the frames behind it are still read and dispatched.
C21_MalformedLineKeepsLoop ==
    [][\A c \in Conns :
          (ReadsHead(c) /\ Head(chan[c]).line \in Unparseable)
          => ~RecvStopped(recv'[c])]_vars

\* The tasks of Connection c that are inside `async with self._write_lock`,
\* between their writer.write(data) and the end of their drain.
InsideLock(c) ==
    {CallHolder(k) : k \in {j \in DOMAIN calls[c] : calls[c][j].pos = "drain"}}
    \cup {NotifHolder(n) : n \in {j \in DOMAIN notifs[c] : notifs[c][j].pos = "drain"}}
    \cup (IF recv[c].pc = "drain" THEN {RecvHolder} ELSE {})

\* C22  Writes are serialized through the write lock: at most one task of a
\* Connection is between its write and the end of its drain, and it is the
\* holder of the lock; a step of a Connection puts at most one frame on the
\* wire, as one whole line behind the lines already there, and only when
\* no other task holds the lock.
C22_WritesSerialized ==
    /\ [](\A c \in Conns :
            InsideLock(c) = (IF lock[c] = Free THEN {} ELSE {lock[c]}))
    /\ [][\A c \in Conns :
            ( /\ chan'[c] # chan[c]
              /\ ~(chan[c] # <<>> /\ chan'[c] = Tail(chan[c]))
              /\ faults' = faults )
            => /\ lock[Peer(c)] = Free
               /\ Len(chan'[c]) = Len(chan[c]) + 1
               /\ chan'[c] = Append(chan[c], chan'[c][Len(chan'[c])])
               /\ chan'[c][Len(chan'[c])].line = "json"
               /\ \A d \in Conns \ {c} : Len(chan'[d]) <= Len(chan[d])]_vars

\* A notification holds the lock in its drain while a send_request and the
\* Response of the receive task of the same Connection wait for it.
C22_Witness ==
    \E c \in Conns :
        /\ lock[c] = NotifHolder(1)
        /\ Len(calls[c]) >= 1 /\ calls[c][1].pos = "send"
        /\ recv[c].pc = "send"

\* The call of Connection d that a logged Request with id i came from.
CallOfId(d, i) == calls[d][i + 1]

\* C23  Lines are taken off the inbound stream oldest first, the message
\* the receive task dispatches is the line it has just taken, and a
\* send_request that was made after every earlier send_request of its
\* Connection had returned has its Request handled after the Requests of
\* those earlier calls.
C23_ArrivalOrder ==
    /\ [][\A c \in Conns :
            Len(chan'[c]) < Len(chan[c])
            => /\ chan'[c] = Tail(chan[c])
               /\ recv[c].pc = "read"
               /\ recv'[c].pc \in {"handler", "send", "drain"}
                     => recv'[c].msg = Head(chan[c])]_vars
    /\ [](\A c \in Conns : \A a, b \in DOMAIN reqLog[c] :
            (a < b /\ reqLog[c][a].id > reqLog[c][b].id)
            => ~CallOfId(Peer(c), reqLog[c][a].id).alone)

\* Two calls made one after the other, the second after the first had
\* returned with its result, were handled in the order they were made.
C23_Witness ==
    \E c \in Conns :
        /\ Len(reqLog[c]) = 2
        /\ reqLog[c][1].id = 0 /\ reqLog[c][2].id = 1
        /\ reqLog[c][2].how = "ok"
        /\ calls[Peer(c)][2].alone
        /\ calls[Peer(c)][1].st = "result" /\ calls[Peer(c)][2].st = "result"

\* The entries of c's Request log that carry the id i.
LoggedWithId(c, i) == {a \in DOMAIN reqLog[c] : reqLog[c][a].id = i}

HandlerResults == {Echo(ParamOf(n)) : n \in 1..4}

\* C25  Response after effect: a send_request has returned with a result of
\* the peer's handler only when the peer has handled the Request with the
\* call's id and that handler has run to its end with success.
C25_ResponseAfterEffect ==
    \A c \in Conns : \A k \in DOMAIN calls[c] :
        (calls[c][k].st = "result" /\ calls[c][k].val \in HandlerResults)
        => \E a \in DOMAIN reqLog[Peer(c)] :
              /\ reqLog[Peer(c)][a].id = calls[c][k].id
              /\ reqLog[Peer(c)][a].how = "ok"
              /\ reqLog[Peer(c)][a].n = 1

\* A caller has resumed with its result while its peer, whose handler for
\* that call is over, is already handling the next Request.
C25_Witness ==
    \E c \in Conns :
        /\ Len(calls[c]) = 2
        /\ calls[c][1].st = "result" /\ calls[c][1].pos = "await"
        /\ calls[c][2].st = "pending"
        /\ Len(reqLog[Peer(c)]) = 2
        /\ reqLog[Peer(c)][1].how = "ok"
        /\ reqLog[Peer(c)][2].how = "none"

\* The entries of c's Notification log that carry the n-th Notification of
\* its peer.
LoggedNotif(c, n) ==
    {a \in DOMAIN notifLog[c] :
        /\ notifLog[c][a].params = notifs[Peer(c)][n].params
        /\ notifLog[c][a].method = notifs[Peer(c)][n].method}

C27_NotificationAwaitsNoReply ==
    [][\A c \in Conns :
          notifs'[c] # notifs[c]
          => /\ nextId' = nextId
             /\ pending' = pending
             /\ calls' = calls
             /\ \A n \in DOMAIN notifs'[c] :
                   /\ notifs'[c][n].pos \in {"send", "drain", "done", "failed"}
                   /\ (n > Len(notifs[c]) /\ notifs'[c][n].pos = "send")
                         => lock[c] # Free
                   /\ notifs'[c][n].pos = "drain" => lock'[c] = NotifHolder(n)]_vars

\* A send_notification has returned while its frame is still unread on the
\* wire and a call of the same Connection is outstanding.
C27_Witness ==
    \E c \in Conns :
        /\ Len(notifs[c]) >= 1 /\ notifs[c][1].pos = "done"
        /\ chan[Peer(c)] # <<>>
        /\ Classify(impl, chan[Peer(c)][Len(chan[Peer(c)])]) = "notification"
        /\ Len(calls[c]) = 1 /\ calls[c][1].pos = "await" /\ calls[c][1].st = "pending"
        /\ nextId[c] = 1
        /\ DOMAIN pending[c] = {0}

\* The receive task of c is inside the handler of a Notification.
HandlingNotification(c) ==
    recv[c].pc \in {"handler", "nested"} /\ ~recv[c].msg.hasId

\* C28  Whenever a Connection has been handed a Notification, with its
\* handler still in progress or ended in whatever way, a close() of that
\* Connection or of the sender raises nothing; a close() that starts while
\* the handler is in progress cancels the receive task, writes no frame and
\* goes on to return.
C28_CloseDuringNotification ==
    /\ [](\A c \in Conns :
            notifLog[c] # <<>>
            => /\ ~CloseEffect(impl, ConnState(c)).raised
               /\ ~CloseEffect(impl, ConnState(Peer(c))).raised)
    /\ [][\A c \in Conns :
            ( /\ HandlingNotification(c)
              /\ closePc[c] = "idle"
              /\ closePc'[c] = "wait" \/ closeCalls'[c] > closeCalls[c] )
            => /\ recv'[c].pc = "cancelled"
               /\ chan' = chan
               /\ notifLog' = notifLog]_vars

\* close() has returned on a Connection whose receive task it cancelled
\* inside the handler of a Notification.
C28_Witness ==
    \E c \in Conns :
        /\ notifLog[c] # <<>>
        /\ ~notifLog[c][Len(notifLog[c])].fin
        /\ recv[c].pc = "cancelled"
        /\ closeCalls[c] >= 1 /\ closePc[c] = "idle"

\* C29  A Response with neither `result` nor `error` whose id matches a
\* pending call resolves that call with the empty value: in the step in
\* which the line is read the call's Future holds the result None and the
\* id is gone from the pending table.
C29_EmptyResponseResolves ==
    [][\A c \in Conns :
          ( /\ ReadsHead(c)
            /\ Head(chan[c]) = EmptyResponseFrame(Head(chan[c]).id)
            /\ Head(chan[c]).id \in DOMAIN pending[c]
            /\ ~FutureDone(calls[c][pending[c][Head(chan[c]).id]]) )
          => LET k == pending[c][Head(chan[c]).id]
             IN  /\ calls'[c][k].st = "result"
                 /\ calls'[c][k].val = "none"
                 /\ Head(chan[c]).id \notin DOMAIN pending'[c]]_vars

\* An id can be recognized in a line that failed to parse: with the bytes
\* that are no UTF-8 left out, the line is a JSON object with an id.
IdRecognized(f) == f.line = "badutf8" /\ f.hasId

\* C30  When the receive loop reads a line that fails to parse, it sends a
\* Response with ParseError (-32700) under the line's id exactly when an
\* id can be recognized in the line (the Response is written in the step,
\* or the receive task waits for the write lock with it); otherwise
\* nothing is written.
C30_ParseErrorIffId ==
    [][\A c \in Conns :
          (ReadsHead(c) /\ Head(chan[c]).line \in Unparseable)
          => LET reply == ErrorFrame(Head(chan[c]).id, ParseError)
                 replied ==
                    \/ chan'[Peer(c)] = WireAfterWrite(chan[Peer(c)], wclosed[c], reply)
                          /\ recv'[c].pc \in {"read", "drain"}
                    \/ recv'[c].pc = "send" /\ recv'[c].out = reply
                 silent == chan'[Peer(c)] = chan[Peer(c)] /\ recv'[c].pc # "send"
             IN  IF IdRecognized(Head(chan[c])) THEN replied ELSE silent]_vars

\* f is the frame the task h of a Connection writes under the lock, from
\* the Connection's calls cs and notifications ns: the Request of the call,
\* the Notification, a Response of the receive task.
IsFrameOf(cs, ns, h, f) ==
    CASE h.kind = "call" -> f = RequestFrame(cs[h.k].id, cs[h.k].method, cs[h.k].params)
      [] h.kind = "notif" -> f = NotificationFrame(ns[h.k].method, ns[h.k].params)
      [] OTHER -> f.line = "json" /\ f.method = "absent" /\ f.hasId

\* The tasks of a Connection that have not yet got the lock for their write.
BeforeLock(cs, ns, r) ==
    {CallHolder(k) : k \in {j \in DOMAIN cs : cs[j].pos = "send"}}
    \cup {NotifHolder(n) : n \in {j \in DOMAIN ns : ns[j].pos = "send"}}
    \cup (IF r.pc \in {"handler", "send"} THEN {RecvHolder} ELSE {})

\* The tasks of a Connection that exist: every call, every notification
\* and the receive task.
Writers(cs, ns) ==
    {CallHolder(k) : k \in DOMAIN cs} \cup {NotifHolder(n) : n \in DOMAIN ns}
    \cup {RecvHolder}

\* C31  Frames are on the wire in the order their writers got the writer
\* lock: the task that gets the lock has its frame behind every line
\* already on the wire in that same step, every line put on the wire is the
\* frame of a task that got the lock in that step, and two send_request or
\* two send_notification calls of which the second was made after the
\* first had returned never have their frames in the opposite order.
C31_FirstAcquireFirstWritten ==
    /\ [][\A c \in Conns :
            /\ (lock'[c] # Free /\ lock'[c] # lock[c])
               => /\ lock[c] = Free
                  /\ ~wclosed[c]
                        => /\ Len(chan'[Peer(c)]) = Len(chan[Peer(c)]) + 1
                           /\ SubSeq(chan'[Peer(c)], 1, Len(chan[Peer(c)])) = chan[Peer(c)]
                           /\ IsFrameOf(calls'[c], notifs'[c], lock'[c],
                                        chan'[Peer(c)][Len(chan'[Peer(c)])])
            /\ (Len(chan'[Peer(c)]) > Len(chan[Peer(c)]) /\ faults' = faults)
               => \E h \in Writers(calls'[c], notifs'[c]) :
                     /\ h \notin BeforeLock(calls'[c], notifs'[c], recv'[c])
                     /\ \/ h \in BeforeLock(calls[c], notifs[c], recv[c])
                        \/ h \notin Writers(calls[c], notifs[c])
                        \/ h = RecvHolder /\ recv[c].pc = "read"
                     /\ SubSeq(chan'[Peer(c)], 1, Len(chan[Peer(c)])) = chan[Peer(c)]
                     /\ IsFrameOf(calls'[c], notifs'[c], h,
                                  chan'[Peer(c)][Len(chan'[Peer(c)])])]_vars
    /\ [](\A d \in Conns : \A i, j \in DOMAIN chan[d] :
            (i < j /\ chan[d][i].line = "json" /\ chan[d][j].line = "json")
            => /\ ( /\ Classify(impl, chan[d][i]) = "request"
                    /\ Classify(impl, chan[d][j]) = "request"
                    /\ chan[d][i].id > chan[d][j].id )
                  => ~CallOfId(Peer(d), chan[d][i].id).alone
               /\ \A a, b \in DOMAIN notifs[Peer(d)] :
                    ( /\ chan[d][i] = NotificationFrame(notifs[Peer(d)][a].method,
                                                        notifs[Peer(d)][a].params)
                      /\ chan[d][j] = NotificationFrame(notifs[Peer(d)][b].method,
                                                        notifs[Peer(d)][b].params)
                      /\ a > b )
                    => ~notifs[Peer(d)][a].alone)

\* Two notifications sent one after the other, the second after the first
\* had returned, are both unread on the wire behind a Request frame, in the
\* order they were sent.
C31_Witness ==
    \E c \in Conns :
        /\ Len(notifs[c]) = 2 /\ notifs[c][2].alone
        /\ Len(chan[Peer(c)]) = 3
        /\ Classify(impl, chan[Peer(c)][1]) = "request"
        /\ chan[Peer(c)][2] = NotificationFrame(notifs[c][1].method, notifs[c][1].params)
        /\ chan[Peer(c)][3] = NotificationFrame(notifs[c][2].method, notifs[c][2].params)

\* The decoded object has the key.
HasMethodKey(f) == f.method # "absent"

\* C32  A decoded object is handled as a Request iff it has a method and
\* an id, as a Notification iff it has a method and no id, as a Response
\* iff it has an id and no method, and is ignored when it has neither; the
\* two Connection implementations classify every object alike, one with
\* `"method": null` included.
C32_ClassificationAlike ==
    probe.phase = "classified"
    => /\ probe.kind = Classify("core", probe.obj)
       /\ probe.kind = Classify("acp", probe.obj)
       /\ probe.kind = "request" <=> (HasMethodKey(probe.obj) /\ probe.obj.hasId)
       /\ probe.kind = "notification" <=> (HasMethodKey(probe.obj) /\ ~probe.obj.hasId)
       /\ probe.kind = "response" <=> (~HasMethodKey(probe.obj) /\ probe.obj.hasId)
       /\ probe.kind = "invalid" <=> (~HasMethodKey(probe.obj) /\ ~probe.obj.hasId)

\* C37  A Request for a terminal method that reaches a client-side adapter
\* whose implementation object lacks the operation is answered with
\* MethodNotFound (-32601).
C37_TerminalWithoutOperationNotFound ==
    ( /\ Dispatched
      /\ probe.role = "client"
      /\ probe.method = TerminalMethod
      /\ ~probe.supports )
    => /\ probe.resp.isError
       /\ probe.resp.code = MethodNotFound

\* C38  The factory is called exactly once per adapter, at construction:
\* whatever number of Requests has arrived, one call has been made, and
\* every Request is routed to the object that call returned.
C38_FactoryCalledOnce ==
    probe.phase \in {"request", "response", "done"}
    => /\ probe.made = 1
       /\ Dispatched => probe.target = 1

\* C33  A Response that arrives for a pending call whose caller has
\* abandoned it is a safe no-op: nothing is raised in the receive task,
\* which goes on to read the next line.
C33_ResponseForAbandonedCall ==
    [][\A c \in Conns :
          ( /\ ReadsHead(c)
            /\ Head(chan[c]).line = "json"
            /\ Classify(impl, Head(chan[c])) = "response"
            /\ Head(chan[c]).id \in DOMAIN pending[c]
            /\ \E k \in Abandoned(c) : calls[c][k].id = Head(chan[c]).id )
          => /\ recv'[c].pc = "read"
             /\ chan'[Peer(c)] = chan[Peer(c)]]_vars

\* C34  The pending table holds exactly the ids of the send_request calls
\* whose caller is still suspended: every key is below the id counter, and
\* the entry of a call is gone once the call has ended, by a Response, by
\* the caller's cancellation, by a failed write or by close().
C34_PendingTableExact ==
    \A c \in Conns :
        /\ \A i \in DOMAIN pending[c] : i < nextId[c]
        /\ DOMAIN pending[c] =
              {calls[c][k].id : k \in {j \in DOMAIN calls[c] : Suspended(calls[c][j])}}

\* C35  A line that parses as JSON but is no object is ignored: nothing is
\* written, no call, table or counter changes, and the receive task goes
\* on to read the next line.
C35_NonObjectIgnored ==
    [][\A c \in Conns :
          (ReadsHead(c) /\ Head(chan[c]).line = "nondict")
          => /\ recv'[c] = recv[c]
             /\ recv'[c].pc = "read"
             /\ calls' = calls /\ pending' = pending /\ nextId' = nextId
             /\ chan'[Peer(c)] = chan[Peer(c)]]_vars

\* The handler invocations of Connection c that have not returned; the
\* end of the receive task (cancelled by close(), or crashed) ends the
\* invocation it was in.
InProgress(c) ==
    IF RecvStopped(recv[c]) THEN 0
    ELSE Cardinality({a \in DOMAIN reqLog[c] : ~reqLog[c][a].fin})
         + Cardinality({a \in DOMAIN notifLog[c] : ~notifLog[c][a].fin})

\* The line is a Response a Connection wrote for a Request it handled.
IsHandlerResponse(f) ==
    /\ f.line = "json" /\ f.method = "absent" /\ f.hasId
    /\ ~(f.hasError /\ f.code = ParseError)

\* C36  At most one handler invocation of a Connection is in progress at
\* any time, and it is the one of the message the receive task read last;
\* a Response the Connection writes is for the Request it read last and is
\* put behind the lines already on the wire, so that, between the two
\* Connections alone, the Responses on the wire are in the order their
\* Requests were read.
C36_OneHandlerAtATime ==
    /\ [](\A c \in Conns :
            /\ InProgress(c) <= 1
            /\ \A a \in DOMAIN reqLog[c] : ~reqLog[c][a].fin => a = Len(reqLog[c])
            /\ \A a \in DOMAIN notifLog[c] : ~notifLog[c][a].fin => a = Len(notifLog[c])
            /\ InProgress(c) = 1 => recv[c].pc \in {"handler", "nested", "send", "drain"}
            /\ faults = 0
               => \A i, j \in DOMAIN chan[Peer(c)] :
                     ( /\ i < j
                       /\ IsHandlerResponse(chan[Peer(c)][i])
                       /\ IsHandlerResponse(chan[Peer(c)][j]) )
                     => \E a, b \in DOMAIN reqLog[c] :
                           /\ a < b
                           /\ reqLog[c][a].id = chan[Peer(c)][i].id
                           /\ reqLog[c][b].id = chan[Peer(c)][j].id)
    /\ [][\A c \in Conns :
            ( /\ Len(chan'[Peer(c)]) = Len(chan[Peer(c)]) + 1
              /\ faults' = faults
              /\ IsHandlerResponse(chan'[Peer(c)][Len(chan'[Peer(c)])]) )
            => /\ reqLog'[c] # <<>>
               /\ reqLog'[c][Len(reqLog'[c])].id = chan'[Peer(c)][Len(chan'[Peer(c)])].id
               /\ reqLog'[c][Len(reqLog'[c])].n = 1
               /\ reqLog[c] # <<>> /\ ~reqLog[c][Len(reqLog[c])].fin
               /\ SubSeq(chan'[Peer(c)], 1, Len(chan[Peer(c)])) = chan[Peer(c)]]_vars

\* Two Requests were read in the opposite order of their ids; their
\* Responses are on the wire, unread, in the order the Requests were read.
C36_Witness ==
    \E c \in Conns :
        /\ faults = 0
        /\ Len(reqLog[c]) = 2
        /\ reqLog[c][1].id = 1 /\ reqLog[c][2].id = 0
        /\ reqLog[c][1].fin /\ reqLog[c][2].fin
        /\ Len(chan[Peer(c)]) >= 2
        /\ IsHandlerResponse(chan[Peer(c)][1]) /\ chan[Peer(c)][1].id = 1
        /\ IsHandlerResponse(chan[Peer(c)][2]) /\ chan[Peer(c)][2].id = 0

\* The line is a Request of a send_request call.
IsRequestLine(f) == f.line = "json" /\ f.hasId /\ f.method \in Methods

\* C39  send_request registers the pending entry of its id before its
\* Request frame is written: at the step that puts the frame on the wire
\* the entry is in the table, it is there for as long as the Request or its
\* Response is on the wire, and the Response, however early it arrives,
\* finds it (between the two Connections alone).
C39_RegisteredBeforeWritten ==
    /\ [][\A c \in Conns :
            ( /\ Len(chan'[Peer(c)]) = Len(chan[Peer(c)]) + 1
              /\ faults' = faults /\ faults = 0
              /\ IsRequestLine(chan'[Peer(c)][Len(chan'[Peer(c)])]) )
            => LET f == chan'[Peer(c)][Len(chan'[Peer(c)])]
               IN  /\ f.id \in DOMAIN pending'[c]
                   /\ calls'[c][pending'[c][f.id]].id = f.id]_vars
    /\ [](faults = 0
          => \A c \in Conns :
                /\ \A i \in DOMAIN chan[Peer(c)] :
                      IsRequestLine(chan[Peer(c)][i])
                      => chan[Peer(c)][i].id \in DOMAIN pending[c]
                /\ \A i \in DOMAIN chan[c] :
                      IsHandlerResponse(chan[c][i])
                      => chan[c][i].id \in DOMAIN pending[c])
    /\ [][\A c \in Conns :
            ( /\ ReadsHead(c)
              /\ faults = 0
              /\ IsHandlerResponse(Head(chan[c])) )
            => /\ ResolveTarget(pending[c], Head(chan[c])) # 0
               /\ calls[c][ResolveTarget(pending[c], Head(chan[c]))].id = Head(chan[c]).id
               /\ Head(chan[c]).id \notin DOMAIN pending'[c]]_vars

\* The Response of a call was read and resolved it while the call's task
\* was still in the drain of its Request, before it awaited the Future.
C39_Witness ==
    \E c \in Conns : \E k \in DOMAIN calls[c] :
        /\ faults = 0
        /\ calls[c][k].pos = "drain"
        /\ calls[c][k].st = "result"
        /\ calls[c][k].id \notin DOMAIN pending[c]

\* C40  The writer lock is always released: whoever holds it is a task in
\* the drain of its write and the end of that drain is possible; a task
\* that leaves its write, by the end of the drain, by a failure or by its
\* cancellation, leaves the lock free; a failed serialization never takes
\* it.
C40_LockAlwaysReleased ==
    /\ [](\A c \in Conns :
            /\ lock[c].kind = "call"
               => /\ lock[c].k \in DOMAIN calls[c]
                  /\ calls[c][lock[c].k].pos = "drain"
                  /\ ENABLED CallDrained(c, lock[c].k)
            /\ lock[c].kind = "notif"
               => /\ lock[c].k \in DOMAIN notifs[c]
                  /\ notifs[c][lock[c].k].pos = "drain"
                  /\ ENABLED NotifDrained(c, lock[c].k)
            /\ lock[c].kind = "recv"
               => /\ recv[c].pc = "drain"
                  /\ ENABLED RecvDrained(c))
    /\ [][\A c \in Conns :
            /\ (lock[c] # Free /\ lock'[c] # lock[c]) => lock'[c] = Free
            /\ \A k \in DOMAIN calls[c] :
                  (calls[c][k].pos = "drain" /\ calls'[c][k].pos # "drain")
                  => lock'[c] = Free
            /\ \A n \in DOMAIN notifs[c] :
                  (notifs[c][n].pos = "drain" /\ notifs'[c][n].pos # "drain")
                  => lock'[c] = Free
            /\ (recv[c].pc = "drain" /\ recv'[c].pc # "drain") => lock'[c] = Free
            /\ (recv[c].pc = "handler" /\ recv'[c].pc \in {"read", "crashed"})
                  => lock'[c] \in {lock[c], Free}]_vars

\* A send_request was cancelled in the drain of its Request; the lock is
\* free and a later notification has written its frame behind the Request.
C40_Witness ==
    \E c \in Conns :
        /\ Len(calls[c]) = 1
        /\ calls[c][1].pos = "aborted" /\ calls[c][1].st = "pending"
        /\ lock[c] = Free
        /\ Len(notifs[c]) = 1 /\ notifs[c][1].pos = "done"
        /\ Len(chan[Peer(c)]) = 2
        /\ IsRequestLine(chan[Peer(c)][1])
        /\ chan[Peer(c)][2] = NotificationFrame(notifs[c][1].method, notifs[c][1].params)

====
